---- MODULE Spec2Model ----
(***************************************************************************)
(* BashTower: the cron scheduler service (services/cron_service.py), the   *)
(* SSH execution service (services/ssh_service.py), the key vault          *)
(* (models/__init__.py) and the routes that drive them (routes/*.py).      *)
(*                                                                         *)
(* Twelve specifications share the variables:                              *)
(*   SpecCron    - concurrent firings of execute_cron_job over a catalog   *)
(*   SpecSweep   - firings of two jobs that run, with the history capped   *)
(*   SpecSched   - create / update / delete / restore of scheduled jobs,   *)
(*                 the startup load and the scheduler's trigger store      *)
(*   SpecJob     - ad-hoc runs: run_template, run_job_thread and the       *)
(*                 per-host execute_ssh_command workers                    *)
(*   SpecCatalog - the routes of templates, groups, credentials and        *)
(*                 scheduled jobs: names and references                    *)
(*   SpecVault   - writes and reads of the credential's secret column      *)
(*                 under the keys of the process environment               *)
(*   SpecLive    - a scheduled job saved from a group, changed groups and  *)
(*                 a deleted job while firings run                         *)
(*   SpecDispatch - ad-hoc runs whose template or credential is deleted    *)
(*                 before run_job_thread looks it up                       *)
(*   SpecJobLive - ad-hoc runs under fair scheduling of the threads, with  *)
(*                 a remote command that may never exit                    *)
(*   SpecHosts   - hosts deleted from the catalog while a scheduled job    *)
(*                 that targets them fires                                 *)
(*   SpecRefs    - the template and credential references of scheduled     *)
(*                 jobs under creates and deletes                          *)
(*   SpecRace    - requests handled concurrently: two creates of a         *)
(*                 template, two updates of one scheduled job              *)
(***************************************************************************)
EXTENDS Integers, Sequences, FiniteSets, TLC

\* ------------------------------------------------------------------ bounds
\* number of firings of execute_cron_job in one behaviour
MaxFirings == 2
\* number of /api/run requests in one behaviour
MaxRuns == 1
\* number of ScheduledJob ids handed out in one behaviour of SpecSched
MaxCronId == 2
\* number of cron entries in one backup file
MaxBackup == 1
\* largest Template id handed out in one behaviour of SpecCatalog
MaxTemplateId == 3
\* AppSettings.cron_history_limit in SpecSweep
MaxHistory == 1
\* number of firings in one behaviour of SpecLive and of SpecHosts
MaxLiveFirings == 1
\* number of requests handled concurrently in one behaviour of SpecRace
MaxRequests == 2

\* ------------------------------------------------------------------ values
None == "None"

\* Host ids (integers in the code, tokens here). h3 is an id no Host row has.
HostTokens == {"h1", "h2", "h3"}
\* the order of the Host primary keys
HostOrder == {<<"h1", "h2">>, <<"h1", "h3">>, <<"h2", "h3">>}
\* a host_ids entry that int() rejects
BadToken == "x"

Firings == 1..MaxFirings

Terminal == {"success", "error", "connection_failed"}

\* What the remote side does to one execution.
Outcomes == {"exit0", "exitN", "decode_error", "bad_key", "auth", "ssh", "timeout", "other"}

VARIABLES
    hosts,          \* Host table: the set of ids of the existing rows
    groups,         \* HostGroup table with host_group_membership: group id -> [name, hosts]
    templates,      \* Template table: id -> [name]
    keys,           \* SSHKey table: id -> [name, private_key (the stored column), written]
    env_key,        \* the value of BASHTOWER_SECRET_KEY in the process environment
    reply,          \* the answer to the last request to a catalog route
    cron,           \* CronJob table: id -> row
    next_cron_id,   \* next primary key of CronJob
    triggers,       \* the scheduler's job store: sequence of [id, schedule]
    settings_limit, \* AppSettings(1).cron_history_limit
    cron_logs,      \* CronJobLog table: id -> row
    next_cron_log,  \* next primary key of CronJobLog
    jobs,           \* Job table: id -> [template_name, status]
    next_job_id,    \* next primary key of Job
    job_logs,       \* JobLog table: id -> row
    next_job_log,   \* next primary key of JobLog
    cron_locks,     \* _cron_locks: cron job id -> lock object
    lock_held,      \* the threading.Lock objects: lock_held[l] is TRUE while l is locked
    registry_owner, \* _lock_registry_lock: 0 when free, else the firing inside the with block
    now,            \* the clock: advances at each firing
    fire,           \* the invocations of execute_cron_job: firing -> its frame
    runner,         \* the run_job_thread threads: job id -> its frame
    responses,      \* the answers of POST /api/run so far, in order
    workers,        \* the execute_ssh_command threads: key -> [pc, row]
    ssh_env,        \* the outcomes the remote hosts can produce in this behaviour
    requests        \* the HTTP requests handled concurrently: request -> its frame

vars == <<hosts, groups, templates, keys, env_key, reply, cron, next_cron_id, triggers, settings_limit,
          cron_logs, next_cron_log, jobs, next_job_id, job_logs, next_job_log,
          cron_locks, lock_held, registry_owner, now, fire, runner, responses, workers,
          ssh_env, requests>>

catalog_vars == <<hosts, groups, templates, keys, env_key>>
cron_vars == <<cron, next_cron_id, triggers, settings_limit, reply>>
lock_vars == <<cron_locks, lock_held, registry_owner>>
job_vars == <<jobs, next_job_id, runner, responses>>

\* ------------------------------------------------------------------ helpers
SeqToSet(s) == {s[i] : i \in 1..Len(s)}

\* f with key k (re)bound to v
Put(f, k, v) == [x \in (DOMAIN f) \cup {k} |-> IF x = k THEN v ELSE f[x]]

\* f without the keys in ks
Drop(f, ks) == [x \in (DOMAIN f) \ ks |-> f[x]]

\* ------------------------------------------------------------------ key vault
\* The values of BASHTOWER_SECRET_KEY: two Fernet keys, and a string that Fernet()
\* rejects.
FernetKeys == {"k1", "k2"}
EnvKeys == FernetKeys \cup {"bad"}

\* A string held in a secret column: a text as it was given, or the Fernet token
\* of a text under a key.
Plain(text) == [kind |-> "plain", key |-> "", text |-> text]
Token(key, text) == [kind |-> "token", key |-> key, text |-> text]

\* models lines 25-34: the value is returned as it is when it is empty, and when
\* Fernet raises
encrypt_value(value, key) ==
    IF value = "" THEN Plain(value)
    ELSE IF key \in FernetKeys THEN Token(key, value)
    ELSE Plain(value)

\* models lines 36-44: the stored string is returned as it is when it is empty,
\* and when Fernet raises (another key, no token, no usable key)
decrypt_valueEmptyOnFailure(stored, key) ==
    IF stored.kind = "token" /\ key \in FernetKeys /\ stored.key = key THEN Plain(stored.text)
    ELSE Plain("")

decrypt_value(stored, key) ==
    IF stored = Plain("") THEN stored
    ELSE IF stored.kind = "token" /\ key \in FernetKeys /\ stored.key = key
    THEN Plain(stored.text)
    ELSE stored

\* SSHKey(name=name, private_key=value): the setter encrypts. written and
\* written_under record the value given and the key of the process at that time.
KeyRow(name, value, key) ==
    [name |-> name, private_key |-> encrypt_value(value, key),
     written |-> value, written_under |-> key]

\* ------------------------------------------------------- execute_ssh_command
\* A worker key is <<kind, parent, host>>: kind "cron" (parent a firing, rows in
\* CronJobLog) or "job" (parent a Job id, rows in JobLog).

\* log_model(**log_kwargs) with status 'running', committed
NewLog(id, owner, host, w) ==
    [id |-> id, owner |-> owner, hostname |-> host, status |-> "running",
     stdout |-> "", stderr |-> "", created_at |-> id, worker |-> w, writes |-> 1]

\* The except chain of execute_ssh_command: the status it leaves in log_entry
StatusForNoGenericHandler(o) ==
    CASE o = "exit0" -> "success"
      [] o = "exitN" -> "error"
      [] o \in {"auth", "ssh", "timeout"} -> "connection_failed"
      [] OTHER -> "running"

StatusFor(o) ==
    CASE o = "exit0" -> "success"
      [] o = "exitN" -> "error"
      [] OTHER -> "connection_failed"

StdoutFor(o) == IF o \in {"exit0", "exitN"} THEN "out" ELSE ""

\* the timeout handled by the generic clause
StderrForTimeoutUnclassified(o) ==
    CASE o = "exit0" -> ""
      [] o = "exitN" -> "err"
      [] o = "auth" -> "Authentication Error: e"
      [] o = "ssh" -> "SSH Error: e"
      [] o = "bad_key" -> "Error: Unable to parse private key"
      [] OTHER -> "Error: e"

StderrFor(o) ==
    CASE o = "exit0" -> ""
      [] o = "exitN" -> "err"
      [] o = "auth" -> "Authentication Error: e"
      [] o = "ssh" -> "SSH Error: e"
      [] o = "timeout" -> "Connection Timeout: e"
      [] o = "bad_key" -> "Error: Unable to parse private key"
      [] OTHER -> "Error: e"

\* a commit in the try block as well as in the finally clause
FinaliseCommittedTwice(row, o) ==
    [row EXCEPT !.status = StatusFor(o), !.stdout = StdoutFor(o),
                !.stderr = StderrFor(o), !.writes = @ + 2]

\* log_entry after the try block, as the finally clause commits it
Finalise(row, o) ==
    [row EXCEPT !.status = StatusFor(o), !.stdout = StdoutFor(o),
                !.stderr = StderrFor(o), !.writes = @ + 1]

\* The try block of lines 74-106, step by step.
ParseStep == 1
ConnectStep == 2
ExecStep == 3
ExitStatusStep == 4
DecodeStep == 5
StoreStep == 6

\* the step at which the outcome raises (StoreStep: none does)
RaisedAt(o) ==
    CASE o = "bad_key" -> ParseStep
      [] o \in {"auth", "ssh", "timeout"} -> ConnectStep
      [] o = "other" -> ExecStep
      [] o = "decode_error" -> DecodeStep
      [] OTHER -> StoreStep

\* what recv_exit_status() returned (line 100), "unset" when it was not reached
ExitStatuses(o) ==
    CASE o = "exit0" -> {"zero"}
      [] o = "exitN" -> {"nonzero"}
      [] o = "decode_error" -> {"zero", "nonzero"}
      [] OTHER -> {"unset"}

\* line 79: client = paramiko.SSHClient(), reached once the key has parsed
ClientOpened(o) == RaisedAt(o) > ParseStep

\* client.close() as the last statement of the try block
ClientClosedAtEndOfTry(o) == RaisedAt(o) = StoreStep

\* lines 130-132: finally: if client: client.close()
ClientClosed(o) == ClientOpened(o)

\* the client of the invocation (its local variable) when the invocation returns
ClientAfter(o) ==
    IF ~ClientOpened(o) THEN "none" ELSE IF ClientClosed(o) THEN "closed" ELSE "open"

\* line 73: client = None
Spawned(ks) ==
    [k \in ks |-> [pc |-> "spawned", row |-> 0, outcome |-> "unset", exit_status |-> "unset",
                   client |-> "none"]]

\* lines 60-71: the row is created as 'running' and committed
WorkerCreate(k) ==
    /\ k \in DOMAIN workers
    /\ workers[k].pc = "spawned"
    /\ IF k[1] = "cron"
       THEN /\ cron_logs' = Put(cron_logs, next_cron_log,
                                NewLog(next_cron_log, fire[k[2]].job, k[3], k))
            /\ next_cron_log' = next_cron_log + 1
            /\ workers' = [workers EXCEPT ![k].pc = "running", ![k].row = next_cron_log]
            /\ UNCHANGED <<job_logs, next_job_log>>
       ELSE /\ job_logs' = Put(job_logs, next_job_log,
                               NewLog(next_job_log, k[2], k[3], k))
            /\ next_job_log' = next_job_log + 1
            /\ workers' = [workers EXCEPT ![k].pc = "running", ![k].row = next_job_log]
            /\ UNCHANGED <<cron_logs, next_cron_log>>
    /\ UNCHANGED <<catalog_vars, cron_vars, lock_vars, job_vars, now, fire, ssh_env, requests>>

\* lines 73-135: the SSH attempt, the except chain, and the commit of the finally
\* clause. A row that a sweep deleted meanwhile cannot be updated.
WorkerFinish(k, o) ==
    /\ k \in DOMAIN workers
    /\ workers[k].pc = "running"
    /\ o \in ssh_env
    /\ LET r == workers[k].row IN
       IF k[1] = "cron"
       THEN /\ cron_logs' = IF r \in DOMAIN cron_logs
                            THEN [cron_logs EXCEPT ![r] = Finalise(@, o)]
                            ELSE cron_logs
            /\ UNCHANGED job_logs
       ELSE /\ job_logs' = IF r \in DOMAIN job_logs
                           THEN [job_logs EXCEPT ![r] = Finalise(@, o)]
                           ELSE job_logs
            /\ UNCHANGED cron_logs
    /\ \E x \in ExitStatuses(o) :
          workers' = [workers EXCEPT ![k].pc = "returned", ![k].outcome = o,
                                     ![k].exit_status = x, ![k].client = ClientAfter(o)]
    /\ UNCHANGED <<catalog_vars, cron_vars, lock_vars, job_vars, now, fire,
                   next_cron_log, next_job_log, ssh_env, requests>>

\* ------------------------------------------------------- cleanup_old_cron_history
\* the ids of the n newest rows by created_at (order_by(created_at.desc()).limit(n))
RECURSIVE Newest(_, _)
Newest(logs, n) ==
    IF n = 0 \/ DOMAIN logs = {} THEN {}
    ELSE LET top == CHOOSE i \in DOMAIN logs :
                        \A j \in DOMAIN logs : logs[j].created_at <= logs[i].created_at
         IN {top} \cup Newest(Drop(logs, {top}), n - 1)

\* lines 29-36 without the early returns
SweepNeededAlways(total, limit) == TRUE

\* lines 29-36: whether the sweep goes on to delete. A limit of 0 also stands for
\* a missing AppSettings row and for a NULL limit, which line 29 treats alike.
SweepNeeded(total, limit) == limit > 0 /\ total > limit

\* line 42: CronJobLog.query.filter(~CronJobLog.id.in_(keep_ids)).delete()
DeleteAllBut(logs, keep_ids) == Drop(logs, (DOMAIN logs) \ keep_ids)

\* the function run with no other session writing: settings.py lines 18-35 have
\* the same body
cleanup_old_cron_history(logs, limit) ==
    IF SweepNeeded(Cardinality(DOMAIN logs), limit)
    THEN DeleteAllBut(logs, Newest(logs, limit))
    ELSE logs

\* ------------------------------------------------------- execute_cron_job
\* keep_ids is the local of cleanup_old_cron_history; deleted and kept record the
\* created_at of the rows its delete removed and left
IdleFrame == [pc |-> "idle", job |-> 0, host_ids |-> <<>>, lock |-> 0,
              acquired |-> "unset", hosts |-> {}, fired_at |-> 0, effects |-> {},
              keep_ids |-> {}, deleted |-> {}, kept |-> {}]

\* the firings that have returned (or died with an exception)
Ended == {"not_found_or_disabled", "skipped", "no_hosts", "raised", "done"}

InProgress(t) == fire[t].pc \notin ({"idle"} \cup Ended)

\* a row that exists is run, enabled or not
RunnableIfExists(id) == id \in DOMAIN cron

\* line 58: if not cron or not cron.enabled: return
Runnable(id) == id \in DOMAIN cron /\ cron[id].enabled

\* lines 56-60: the trigger fires; the row is loaded. Firings are numbered in the
\* order in which they start.
Fire(t, id) ==
    /\ fire[t].pc = "idle"
    /\ \A u \in Firings : u < t => fire[u].pc # "idle"
    /\ \E i \in 1..Len(triggers) : triggers[i].id = id
    /\ now' = now + 1
    /\ fire' = [fire EXCEPT ![t] =
                 IF ~Runnable(id)
                 THEN [@ EXCEPT !.pc = "not_found_or_disabled", !.job = id, !.fired_at = now + 1]
                 ELSE [@ EXCEPT !.pc = "registry", !.job = id, !.fired_at = now + 1,
                                !.host_ids = cron[id].host_ids]]
    /\ UNCHANGED <<catalog_vars, cron_vars, lock_vars, job_vars, cron_logs, next_cron_log,
                   job_logs, next_job_log, workers, ssh_env, requests>>

\* line 63: with _lock_registry_lock (a blocking acquire)
RegistryFreeNoMutex == TRUE

RegistryFree == registry_owner = 0

RegistryEnter(t) ==
    /\ fire[t].pc = "registry"
    /\ RegistryFree
    /\ registry_owner' = t
    /\ fire' = [fire EXCEPT ![t].pc = "reg_check"]
    /\ UNCHANGED <<catalog_vars, cron_vars, cron_locks, lock_held, job_vars, cron_logs,
                   next_cron_log, job_logs, next_job_log, workers, now, ssh_env, requests>>

\* one lock for every scheduled job
LockKeyShared(id) == 0

\* lines 64-66: the registry is keyed by cron_job_id
LockKey(id) == id

\* line 64: if cron_job_id not in _cron_locks
RegistryCheck(t) ==
    /\ fire[t].pc = "reg_check"
    /\ fire' = [fire EXCEPT ![t].pc =
                 IF LockKey(fire[t].job) \notin DOMAIN cron_locks THEN "reg_create" ELSE "reg_read"]
    /\ UNCHANGED <<catalog_vars, cron_vars, lock_vars, job_vars, cron_logs,
                   next_cron_log, job_logs, next_job_log, workers, now, ssh_env, requests>>

\* line 65: _cron_locks[cron_job_id] = threading.Lock()
RegistryCreate(t) ==
    /\ fire[t].pc = "reg_create"
    /\ lock_held' = Append(lock_held, FALSE)
    /\ cron_locks' = Put(cron_locks, LockKey(fire[t].job), Len(lock_held) + 1)
    /\ fire' = [fire EXCEPT ![t].pc = "reg_read"]
    /\ UNCHANGED <<catalog_vars, cron_vars, registry_owner, job_vars, cron_logs,
                   next_cron_log, job_logs, next_job_log, workers, now, ssh_env, requests>>

\* line 66 and the end of the with block
RegistryRead(t) ==
    /\ fire[t].pc = "reg_read"
    /\ registry_owner' = 0
    /\ fire' = [fire EXCEPT ![t].pc = "acquire", ![t].lock = cron_locks[LockKey(fire[t].job)]]
    /\ UNCHANGED <<catalog_vars, cron_vars, cron_locks, lock_held, job_vars, cron_logs,
                   next_cron_log, job_logs, next_job_log, workers, now, ssh_env, requests>>

\* lines 69-71: where the firing goes once acquire(blocking=False) has answered
AfterAcquireIgnored(got) == "resolve"

AfterAcquire(got) == IF got THEN "resolve" ELSE "skipped"

\* line 68: acquired = cron_lock.acquire(blocking=False)
TryAcquire(t) ==
    /\ fire[t].pc = "acquire"
    /\ LET l == fire[t].lock
           got == ~lock_held[l]
       IN /\ lock_held' = [lock_held EXCEPT ![l] = TRUE]
          /\ fire' = [fire EXCEPT ![t].pc = AfterAcquire(got),
                                  ![t].acquired = IF got THEN "yes" ELSE "no"]
    /\ UNCHANGED <<catalog_vars, cron_vars, cron_locks, registry_owner, job_vars, cron_logs,
                   next_cron_log, job_logs, next_job_log, workers, now, ssh_env, requests>>

\* lines 75-82: int() of every entry, then the Host rows with those ids
Resolve(t) ==
    /\ fire[t].pc = "resolve"
    /\ LET ids == SeqToSet(fire[t].host_ids)
           found == ids \cap hosts
       IN fire' = [fire EXCEPT ![t] =
                    IF \E x \in ids : x \notin HostTokens
                    THEN [@ EXCEPT !.pc = "raised"]
                    ELSE IF found = {}
                    THEN [@ EXCEPT !.pc = "no_hosts"]
                    ELSE [@ EXCEPT !.pc = "dispatch", !.hosts = found]]
    /\ UNCHANGED <<catalog_vars, cron_vars, lock_vars, job_vars, cron_logs,
                   next_cron_log, job_logs, next_job_log, workers, now, ssh_env, requests>>

\* the wait ends as soon as one thread has returned
JoinedFirstOnly(ks) == \E k \in ks : workers[k].pc = "returned"

\* for t in threads: t.join() (cron_service.py lines 100-101, ssh_service.py lines
\* 176-177): every thread has returned
Joined(ks) == \A k \in ks : workers[k].pc = "returned"

\* lines 90-97: one thread per host
Dispatch(t) ==
    /\ fire[t].pc = "dispatch"
    /\ workers' = workers @@ Spawned({<<"cron", t, h>> : h \in fire[t].hosts})
    /\ fire' = [fire EXCEPT ![t].pc = "join"]
    /\ UNCHANGED <<catalog_vars, cron_vars, lock_vars, job_vars, cron_logs,
                   next_cron_log, job_logs, next_job_log, now, ssh_env, requests>>

\* lines 100-101: t.join() for every thread
Join(t) ==
    /\ fire[t].pc = "join"
    /\ Joined({<<"cron", t, h>> : h \in fire[t].hosts})
    /\ fire' = [fire EXCEPT ![t].pc = "update"]
    /\ UNCHANGED <<catalog_vars, cron_vars, lock_vars, job_vars, cron_logs,
                   next_cron_log, job_logs, next_job_log, workers, now, ssh_env, requests>>

\* lines 105-106: cron.last_run = datetime.utcnow(), committed. When the row was
\* deleted during the run the UPDATE matches no row and the commit raises: the
\* sweep of line 109 is not reached and the finally clause releases the lock.
UpdateLastRun(t) ==
    /\ fire[t].pc = "update"
    /\ IF fire[t].job \in DOMAIN cron
       THEN /\ cron' = [cron EXCEPT ![fire[t].job].last_run = now]
            /\ fire' = [fire EXCEPT ![t].pc = "sweep", ![t].effects = @ \cup {"last_run"}]
       ELSE /\ cron' = cron
            /\ fire' = [fire EXCEPT ![t].pc = "release"]
    /\ UNCHANGED <<catalog_vars, next_cron_id, triggers, settings_limit, reply, lock_vars,
                   job_vars, cron_logs, next_cron_log, job_logs, next_job_log, workers, now,
                   ssh_env, requests>>

\* line 109 calls cleanup_old_cron_history(); its lines 28-36: the settings row and
\* the count of the rows
SweepCount(t) ==
    /\ fire[t].pc = "sweep"
    /\ fire' = [fire EXCEPT ![t].pc = IF SweepNeeded(Cardinality(DOMAIN cron_logs), settings_limit)
                                      THEN "sweep_keep" ELSE "release",
                            ![t].effects = @ \cup {"sweep"}]
    /\ UNCHANGED <<catalog_vars, cron_vars, lock_vars, job_vars, cron_logs,
                   next_cron_log, job_logs, next_job_log, workers, now, ssh_env, requests>>

\* line 39: the ids of the rows to keep
SweepKeep(t) ==
    /\ fire[t].pc = "sweep_keep"
    /\ fire' = [fire EXCEPT ![t].pc = "sweep_delete",
                            ![t].keep_ids = Newest(cron_logs, settings_limit)]
    /\ UNCHANGED <<catalog_vars, cron_vars, lock_vars, job_vars, cron_logs,
                   next_cron_log, job_logs, next_job_log, workers, now, ssh_env, requests>>

\* the delete runs against both log tables
SweepTablesBoth(tables, keep_ids) ==
    [cron_job_log |-> DeleteAllBut(tables.cron_job_log, keep_ids),
     job_log |-> DeleteAllBut(tables.job_log, keep_ids)]

\* line 42: the delete is a query on CronJobLog; JobLog is not named
SweepTables(tables, keep_ids) ==
    [tables EXCEPT !.cron_job_log = DeleteAllBut(@, keep_ids)]

\* lines 42-43: the bulk delete, committed
SweepDelete(t) ==
    /\ fire[t].pc = "sweep_delete"
    /\ LET after == SweepTables([cron_job_log |-> cron_logs, job_log |-> job_logs],
                                fire[t].keep_ids)
       IN /\ cron_logs' = after.cron_job_log
          /\ job_logs' = after.job_log
    /\ fire' = [fire EXCEPT ![t].pc = "release",
                            ![t].effects = @ \cup {"delete"},
                            ![t].deleted = {cron_logs[r].created_at :
                                               r \in (DOMAIN cron_logs) \ fire[t].keep_ids},
                            ![t].kept = {cron_logs[r].created_at :
                                            r \in (DOMAIN cron_logs) \cap fire[t].keep_ids}]
    /\ UNCHANGED <<catalog_vars, cron_vars, lock_vars, job_vars,
                   next_cron_log, next_job_log, workers, now, ssh_env, requests>>

\* lines 112-117: finally: cron_lock.release()
Release(t) ==
    /\ fire[t].pc = "release"
    /\ lock_held' = [lock_held EXCEPT ![fire[t].lock] = FALSE]
    /\ fire' = [fire EXCEPT ![t].pc = "done"]
    /\ UNCHANGED <<catalog_vars, cron_vars, cron_locks, registry_owner, job_vars, cron_logs,
                   next_cron_log, job_logs, next_job_log, workers, now, ssh_env, requests>>

\* ------------------------------------------------------------------ catalog
\* two groups: g1 holds both hosts, g2 holds h2
InitGroups ==
    groups = [g \in {"g1", "g2"} |->
                [name |-> g, hosts |-> IF g = "g1" THEN {"h1", "h2"} ELSE {"h2"}]]

\* one credential, written while the process ran with the key "k1"
InitKeys ==
    /\ env_key = "k1"
    /\ keys = [i \in {1} |-> KeyRow("k", "p1", "k1")]

\* no request was answered yet
NoReply ==
    [op |-> "none", code |-> 0, error |-> "", dup |-> FALSE, missing |-> FALSE, names |-> {},
     value |-> Plain("")]

\* An answer: the route, the HTTP status and the kind of its error. dup records
\* that the name of the request was in use by another row of the kind, missing
\* that a required field of the request was empty.
Reply(op, code, error, dup, missing) ==
    [op |-> op, code |-> code, error |-> error, dup |-> dup, missing |-> missing,
     names |-> {}, value |-> Plain("")]

\* the primary key of a new row: one more than the largest in the table
NewId(ids) == IF ids = {} THEN 1 ELSE 1 + CHOOSE i \in ids : \A j \in ids : j <= i

\* ------------------------------------------------------------------ SpecCron
\* last_run 0: never run (NULL)
CronRow(name, schedule, host_ids, enabled) ==
    [name |-> name, schedule |-> schedule, template_id |-> 1, key_id |-> 1,
     host_ids |-> host_ids, enabled |-> enabled, last_run |-> 0]

\* The catalog after five creates and one delete: a job on two hosts, a job whose
\* only host is no longer in the catalog, a job saved with an entry that is no
\* integer, a disabled job; job 5 was deleted and its trigger is still installed.
InitCronCatalog ==
    /\ hosts = {"h1", "h2"}
    /\ InitGroups
    /\ templates = [i \in {1} |-> [name |-> "t1"]]
    /\ InitKeys
    /\ cron = (1 :> CronRow("a", "five", <<"h1", "h2">>, TRUE))
           @@ (2 :> CronRow("b", "five", <<"h3">>, TRUE))
           @@ (3 :> CronRow("c", "five", <<BadToken>>, TRUE))
           @@ (4 :> CronRow("d", "five", <<"h2">>, FALSE))
    /\ next_cron_id = 6
    /\ triggers = [i \in 1..5 |-> [id |-> i, schedule |-> "five"]]

\* no ad-hoc job was run yet
InitNoJobs ==
    /\ jobs = <<>>
    /\ next_job_id = 1
    /\ job_logs = <<>>
    /\ next_job_log = 1

\* no firing and no thread yet; the history of the scheduled jobs is empty
InitNoRuns ==
    /\ cron_logs = <<>>
    /\ next_cron_log = 1
    /\ cron_locks = <<>>
    /\ lock_held = <<>>
    /\ registry_owner = 0
    /\ requests = <<>>
    /\ now = 0
    /\ fire = [t \in Firings |-> IdleFrame]
    /\ runner = <<>>
    /\ reply = NoReply
    /\ responses = <<>>
    /\ workers = <<>>

InitIdle ==
    /\ InitNoJobs
    /\ InitNoRuns

InitCron ==
    /\ InitCronCatalog
    /\ InitIdle
    /\ settings_limit \in {0, 1}
    /\ ssh_env \in {{"exit0"}, {"timeout"}}

NextCron ==
    \/ \E t \in Firings, id \in 1..5 : Fire(t, id)
    \/ \E t \in Firings : RegistryEnter(t)
    \/ \E t \in Firings : RegistryCheck(t)
    \/ \E t \in Firings : RegistryCreate(t)
    \/ \E t \in Firings : RegistryRead(t)
    \/ \E t \in Firings : TryAcquire(t)
    \/ \E t \in Firings : Resolve(t)
    \/ \E t \in Firings : Dispatch(t)
    \/ \E t \in Firings : Join(t)
    \/ \E t \in Firings : UpdateLastRun(t)
    \/ \E t \in Firings : SweepCount(t)
    \/ \E t \in Firings : SweepKeep(t)
    \/ \E t \in Firings : SweepDelete(t)
    \/ \E t \in Firings : Release(t)
    \/ \E k \in DOMAIN workers : WorkerCreate(k)
    \/ \E k \in DOMAIN workers, o \in Outcomes : WorkerFinish(k, o)

SpecCron == InitCron /\ [][NextCron]_vars

\* ------------------------------------------------------------------ SpecSweep
\* the rows of an ad-hoc job that ran on n hosts and succeeded on each, in an
\* earlier life of the process
AdHocRows(n) ==
    [r \in 1..n |-> Finalise(NewLog(r, 1, IF r = 1 THEN "h1" ELSE "h2",
                                    <<"job", 1, IF r = 1 THEN "h1" ELSE "h2">>), "exit0")]

\* one finished ad-hoc job with more rows than the cap of the cron history
InitOneJob ==
    /\ jobs = [j \in {1} |-> [template_name |-> "t1", status |-> "completed"]]
    /\ next_job_id = 2
    /\ job_logs = AdHocRows(MaxHistory + 1)
    /\ next_job_log = MaxHistory + 2

\* Two scheduled jobs that run: one on two hosts, one on one host; the history is
\* capped at MaxHistory rows, or not capped.
InitSweep ==
    /\ hosts = {"h1", "h2"}
    /\ InitGroups
    /\ templates = [i \in {1} |-> [name |-> "t1"]]
    /\ InitKeys
    /\ cron = (1 :> CronRow("a", "five", <<"h1", "h2">>, TRUE))
           @@ (2 :> CronRow("b", "five", <<"h2">>, TRUE))
    /\ next_cron_id = 3
    /\ triggers = [i \in 1..2 |-> [id |-> i, schedule |-> "five"]]
    /\ settings_limit \in {0, MaxHistory}
    /\ ssh_env = {"exit0"}
    /\ InitOneJob
    /\ InitNoRuns

SpecSweep == InitSweep /\ [][NextCron]_vars

\* ------------------------------------------------------------------ scheduler
\* validate_cron_expression: croniter takes five fields, and six (with seconds)
CroniterAccepts(schedule) == schedule \in {"five", "hourly", "six"}

\* CronTrigger.from_crontab: exactly five fields
FromCrontabAccepts(schedule) == schedule \in {"five", "hourly"}

TriggerCount(id) == Cardinality({i \in 1..Len(triggers) : triggers[i].id = id})

\* scheduler.add_job(..., id=str(id), replace_existing=True)
add_job(trigs, id, schedule) ==
    IF \E i \in 1..Len(trigs) : trigs[i].id = id
    THEN [i \in 1..Len(trigs) |->
            IF trigs[i].id = id THEN [id |-> id, schedule |-> schedule] ELSE trigs[i]]
    ELSE Append(trigs, [id |-> id, schedule |-> schedule])

\* lines 147-161: a schedule that from_crontab rejects is logged and nothing is installed
schedule_cron_job(trigs, id, schedule) ==
    IF FromCrontabAccepts(schedule) THEN add_job(trigs, id, schedule) ELSE trigs

NameTaken(name) == \E i \in DOMAIN cron : cron[i].name = name

\* the rows of a query, in primary-key order
RECURSIVE SetToSeq(_)
SetToSeq(S) ==
    IF S = {} THEN <<>>
    ELSE LET x == CHOOSE y \in S : \A z \in S : y = z \/ <<y, z>> \in HostOrder
         IN <<x>> \o SetToSeq(S \ {x})

\* lines 50-59 and 118-127: host_ids wins over group_ids, whose member hosts are
\* looked up when the job is saved
\* the group ids are left unresolved: only explicit host ids are stored
ResolveHostIdsGroupsIgnored(host_ids, group_ids) == host_ids

ResolveHostIds(host_ids, group_ids) ==
    IF host_ids # <<>> THEN host_ids
    ELSE IF group_ids # {}
    THEN SetToSeq({h \in hosts : \E g \in group_ids \cap DOMAIN groups : h \in groups[g].hosts})
    ELSE <<>>

\* POST /api/cronjobs. template_id and key_id are taken from the body as they
\* are (lines 64-65); SQLite is not told to enforce foreign keys.
CreateCronWith(name, schedule, host_ids, enabled, template_id, key_id) ==
    /\ next_cron_id <= MaxCronId
    /\ IF name = ""
       THEN /\ reply' = Reply("create_cron", 400, "required", NameTaken(name), TRUE)
            /\ UNCHANGED <<cron, next_cron_id, triggers>>
       ELSE IF NameTaken(name)
       THEN /\ reply' = Reply("create_cron", 400, "duplicate", TRUE, FALSE)
            /\ UNCHANGED <<cron, next_cron_id, triggers>>
       ELSE IF ~CroniterAccepts(schedule)
       THEN /\ reply' = Reply("create_cron", 400, "schedule", FALSE, FALSE)
            /\ UNCHANGED <<cron, next_cron_id, triggers>>
       ELSE /\ cron' = Put(cron, next_cron_id,
                           [CronRow(name, schedule, host_ids, enabled)
                              EXCEPT !.template_id = template_id, !.key_id = key_id])
            /\ next_cron_id' = next_cron_id + 1
            /\ triggers' = schedule_cron_job(triggers, next_cron_id, schedule)
            /\ reply' = Reply("create_cron", 201, "", FALSE, FALSE)
    /\ UNCHANGED <<catalog_vars, settings_limit, lock_vars, job_vars, cron_logs, next_cron_log,
                   job_logs, next_job_log, now, fire, workers, ssh_env, requests>>

\* the request of a client that sends the ids of template 1 and of credential 1
CreateCron(name, schedule, host_ids, enabled) ==
    CreateCronWith(name, schedule, host_ids, enabled, 1, 1)

\* PUT /api/cronjobs/<id>
UpdateCron(id, name, schedule, host_ids, enabled) ==
    /\ id \in DOMAIN cron
    /\ LET dup == name # cron[id].name /\ NameTaken(name) IN
       IF name = ""
       THEN /\ reply' = Reply("update_cron", 400, "required", dup, TRUE)
            /\ UNCHANGED <<cron, triggers>>
       ELSE IF dup
       THEN /\ reply' = Reply("update_cron", 400, "duplicate", TRUE, FALSE)
            /\ UNCHANGED <<cron, triggers>>
       ELSE IF ~CroniterAccepts(schedule)
       THEN /\ reply' = Reply("update_cron", 400, "schedule", FALSE, FALSE)
            /\ UNCHANGED <<cron, triggers>>
       ELSE /\ cron' = [cron EXCEPT ![id].name = name, ![id].schedule = schedule,
                                    ![id].host_ids = host_ids, ![id].enabled = enabled]
            /\ triggers' = schedule_cron_job(triggers, id, schedule)
            /\ reply' = Reply("update_cron", 200, "", FALSE, FALSE)
    /\ UNCHANGED <<catalog_vars, next_cron_id, settings_limit, lock_vars, job_vars, cron_logs,
                   next_cron_log, job_logs, next_job_log, now, fire, workers, ssh_env, requests>>

\* DELETE /api/cronjobs/<id>: the row goes, with its logs (cascade)
DeleteCron(id) ==
    /\ id \in DOMAIN cron
    /\ cron' = Drop(cron, {id})
    /\ cron_logs' = Drop(cron_logs, {r \in DOMAIN cron_logs : cron_logs[r].owner = id})
    /\ reply' = Reply("delete_cron", 200, "", FALSE, FALSE)
    /\ UNCHANGED <<catalog_vars, next_cron_id, triggers, settings_limit, lock_vars, job_vars,
                   next_cron_log, job_logs, next_job_log, now, fire, workers, ssh_env, requests>>

\* restore_from_git, the cron section: one backup entry against the session's rows
RestoreOne(st, e, overwrite) ==
    LET rows == st.cron
        same == {i \in DOMAIN rows : rows[i].name = e.name}
    IN IF e.template_id \notin DOMAIN templates \/ e.key_id \notin DOMAIN keys THEN st
       ELSE IF same # {}
       THEN IF overwrite
            THEN LET i == CHOOSE x \in same : \A y \in same : x <= y
                 IN [st EXCEPT !.cron = [rows EXCEPT ![i].schedule = e.schedule,
                                                     ![i].template_id = e.template_id,
                                                     ![i].key_id = e.key_id,
                                                     ![i].host_ids = e.host_ids,
                                                     ![i].enabled = e.enabled]]
            ELSE st
       ELSE [cron |-> Put(rows, st.next,
                          [CronRow(e.name, e.schedule, e.host_ids, e.enabled)
                             EXCEPT !.template_id = e.template_id, !.key_id = e.key_id]),
             next |-> st.next + 1]

RECURSIVE RestoreAll(_, _, _)
RestoreAll(st, entries, overwrite) ==
    IF entries = <<>> THEN st
    ELSE RestoreAll(RestoreOne(st, Head(entries), overwrite), Tail(entries), overwrite)

BackupEntries ==
    [name : {"a", "b"}, schedule : {"five", "bad"}, template_id : {1, 2}, key_id : {1},
     host_ids : {<<"h1">>}, enabled : BOOLEAN]

Backups == UNION {[1..n -> BackupEntries] : n \in 1..MaxBackup}

\* POST restore: lines 984-1025, and the commit of line 1091; nothing is scheduled
Restore(entries, overwrite) ==
    /\ next_cron_id + Len(entries) - 1 <= MaxCronId
    /\ LET st == RestoreAll([cron |-> cron, next |-> next_cron_id], entries, overwrite)
       IN /\ cron' = st.cron
          /\ next_cron_id' = st.next
    /\ reply' = Reply("restore", 200, "", FALSE, FALSE)
    /\ UNCHANGED <<catalog_vars, triggers, settings_limit, lock_vars, job_vars, cron_logs,
                   next_cron_log, job_logs, next_job_log, now, fire, workers, ssh_env, requests>>

\* the integer primary keys of a query's rows, ascending
RECURSIVE IdsInOrder(_)
IdsInOrder(ids) ==
    IF ids = {} THEN <<>>
    ELSE LET m == CHOOSE i \in ids : \A j \in ids : i <= j
         IN <<m>> \o IdsInOrder(ids \ {m})

\* lines 127-142: the loop over the enabled rows, each in its own try block
RECURSIVE LoadJobs(_, _, _)
LoadJobs(trigs, rows, ids) ==
    IF ids = <<>> THEN trigs
    ELSE LoadJobs(IF FromCrontabAccepts(rows[Head(ids)].schedule)
                  THEN add_job(trigs, Head(ids), rows[Head(ids)].schedule)
                  ELSE trigs,
                  rows, Tail(ids))

\* lines 120-142: CronJob.query.filter_by(enabled=True).all(), then the loop
load_cron_jobs_into_scheduler(trigs, rows) ==
    LoadJobs(trigs, rows, IdsInOrder({i \in DOMAIN rows : rows[i].enabled}))

\* The process is started again: the scheduler's job store is in memory and starts
\* empty, and the enabled jobs are loaded into it.
Startup ==
    /\ triggers' = load_cron_jobs_into_scheduler(<<>>, cron)
    /\ reply' = Reply("startup", 0, "", FALSE, FALSE)
    /\ UNCHANGED <<catalog_vars, cron, next_cron_id, settings_limit, lock_vars, job_vars,
                   cron_logs, next_cron_log, job_logs, next_job_log, now, fire, workers,
                   ssh_env, requests>>

\* ------------------------------------------------------------------ SpecSched
InitSched ==
    /\ hosts = {"h1", "h2"}
    /\ InitGroups
    /\ templates = [i \in {1} |-> [name |-> "t1"]]
    /\ InitKeys
    /\ cron = <<>>
    /\ next_cron_id = 1
    /\ triggers = <<>>
    /\ settings_limit = 0
    /\ ssh_env = {"exit0"}
    /\ InitIdle

NextSched ==
    \/ \E name \in {"a", "b", ""}, schedule \in {"five", "six", "bad"}, enabled \in BOOLEAN,
          host_ids \in {<<>>, <<"h1">>}, group_ids \in {{}, {"g2"}} :
          CreateCron(name, schedule, ResolveHostIds(host_ids, group_ids), enabled)
    \/ \E id \in 1..MaxCronId, name \in {"a", "b", ""}, schedule \in {"five", "six", "bad"},
          enabled \in BOOLEAN, host_ids \in {<<>>, <<"h1">>}, group_ids \in {{}, {"g2"}} :
          UpdateCron(id, name, schedule, ResolveHostIds(host_ids, group_ids), enabled)
    \/ \E id \in 1..MaxCronId : DeleteCron(id)
    \/ \E entries \in Backups, overwrite \in BOOLEAN : Restore(entries, overwrite)
    \/ Startup

SpecSched == InitSched /\ [][NextSched]_vars

\* ------------------------------------------------------------------ catalog routes
\* what the routes of the catalog leave alone
run_vars == <<lock_vars, job_vars, cron_logs, next_cron_log, job_logs, next_job_log, now,
              fire, workers, ssh_env, requests>>

TemplateNameTakenNever(name) == FALSE

\* Template.query.filter_by(name=name).first()
TemplateNameTaken(name) == \E i \in DOMAIN templates : templates[i].name = name

\* POST /api/templates: templates.py lines 19-50
CreateTemplate(name, script) ==
    /\ NewId(DOMAIN templates) <= MaxTemplateId
    /\ IF name = "" \/ script = ""
       THEN /\ reply' = Reply("create_template", 400, "required", TemplateNameTaken(name), TRUE)
            /\ UNCHANGED templates
       ELSE IF TemplateNameTaken(name)
       THEN /\ reply' = Reply("create_template", 400, "duplicate", TRUE, FALSE)
            /\ UNCHANGED templates
       ELSE /\ templates' = Put(templates, NewId(DOMAIN templates), [name |-> name])
            /\ reply' = Reply("create_template", 201, "", FALSE, FALSE)
    /\ UNCHANGED <<hosts, groups, keys, env_key, cron, next_cron_id, triggers, settings_limit,
                   run_vars>>

\* PUT /api/templates/<id>: lines 66-92. The new name is not required to be
\* non-empty.
UpdateTemplate(id, name) ==
    /\ id \in DOMAIN templates
    /\ IF name # templates[id].name /\ TemplateNameTaken(name)
       THEN /\ reply' = Reply("update_template", 400, "duplicate", TRUE, FALSE)
            /\ UNCHANGED templates
       ELSE /\ templates' = [templates EXCEPT ![id].name = name]
            /\ reply' = Reply("update_template", 200, "", FALSE, FALSE)
    /\ UNCHANGED <<hosts, groups, keys, env_key, cron, next_cron_id, triggers, settings_limit,
                   run_vars>>

UsingTemplateUnchecked(id) == {}

\* line 96: CronJob.query.filter_by(template_id=template.id).all()
UsingTemplate(id) == {j \in DOMAIN cron : cron[j].template_id = id}

\* DELETE /api/templates/<id>: lines 94-106
DeleteTemplate(id) ==
    /\ id \in DOMAIN templates
    /\ IF UsingTemplate(id) # {}
       THEN /\ reply' = [Reply("delete_template", 400, "in use", FALSE, FALSE)
                           EXCEPT !.names = {cron[j].name : j \in UsingTemplate(id)}]
            /\ UNCHANGED templates
       ELSE /\ templates' = Drop(templates, {id})
            /\ reply' = Reply("delete_template", 204, "", FALSE, FALSE)
    /\ UNCHANGED <<hosts, groups, keys, env_key, cron, next_cron_id, triggers, settings_limit,
                   run_vars>>

\* the primary keys of HostGroup, in order
GroupIds == <<"g1", "g2", "g3">>

GroupNameTaken(name) == \E g \in DOMAIN groups : groups[g].name = name

\* POST /api/groups: groups.py lines 17-44
CreateGroup(name, host_ids) ==
    /\ Cardinality(DOMAIN groups) < Len(GroupIds)
    /\ IF name = ""
       THEN /\ reply' = Reply("create_group", 400, "required", GroupNameTaken(name), TRUE)
            /\ UNCHANGED groups
       ELSE IF GroupNameTaken(name)
       THEN /\ reply' = Reply("create_group", 400, "duplicate", TRUE, FALSE)
            /\ UNCHANGED groups
       ELSE /\ groups' = Put(groups, GroupIds[Cardinality(DOMAIN groups) + 1],
                             [name |-> name, hosts |-> host_ids \cap hosts])
            /\ reply' = Reply("create_group", 201, "", FALSE, FALSE)
    /\ UNCHANGED <<hosts, templates, keys, env_key, cron, next_cron_id, triggers,
                   settings_limit, run_vars>>

\* PUT /api/groups/<id>: lines 59-93
UpdateGroup(g, name, host_ids) ==
    /\ g \in DOMAIN groups
    /\ IF name # groups[g].name /\ GroupNameTaken(name)
       THEN /\ reply' = Reply("update_group", 400, "duplicate", TRUE, FALSE)
            /\ UNCHANGED groups
       ELSE /\ groups' = [groups EXCEPT ![g] =
                            [name |-> name,
                             hosts |-> (@.hosts \cap host_ids) \cup ((host_ids \ @.hosts) \cap hosts)]]
            /\ reply' = Reply("update_group", 200, "", FALSE, FALSE)
    /\ UNCHANGED <<hosts, templates, keys, env_key, cron, next_cron_id, triggers,
                   settings_limit, run_vars>>

KeyNameTaken(name) == \E i \in DOMAIN keys : keys[i].name = name

\* POST /api/keys: keys.py lines 16-35
CreateKey(name, private_key) ==
    /\ IF name = "" \/ private_key = ""
       THEN /\ reply' = Reply("create_key", 400, "required", KeyNameTaken(name), TRUE)
            /\ UNCHANGED keys
       ELSE IF KeyNameTaken(name)
       THEN /\ reply' = Reply("create_key", 400, "duplicate", TRUE, FALSE)
            /\ UNCHANGED keys
       ELSE /\ keys' = Put(keys, NewId(DOMAIN keys), KeyRow(name, private_key, env_key))
            /\ reply' = Reply("create_key", 201, "", FALSE, FALSE)
    /\ UNCHANGED <<hosts, groups, templates, env_key, cron, next_cron_id, triggers,
                   settings_limit, run_vars>>

\* git_sync.py lines 955-980 and the commit: the ssh_keys section of a restore, for
\* a backup with one credential
RestoreKey(name, private_key, overwrite) ==
    /\ LET same == {i \in DOMAIN keys : keys[i].name = name} IN
       IF private_key = "" THEN UNCHANGED keys
       ELSE IF same # {}
       THEN IF overwrite
            THEN LET i == CHOOSE x \in same : \A y \in same : x <= y
                 IN keys' = [keys EXCEPT ![i] = KeyRow(name, private_key, env_key)]
            ELSE UNCHANGED keys
       ELSE keys' = Put(keys, NewId(DOMAIN keys), KeyRow(name, private_key, env_key))
    /\ reply' = Reply("restore", 200, "", FALSE, FALSE)
    /\ UNCHANGED <<hosts, groups, templates, env_key, cron, next_cron_id, triggers,
                   settings_limit, run_vars>>

\* models/__init__.py lines 84-87: the getter of SSHKey.private_key
SSHKey_private_key(row) == decrypt_value(row.private_key, env_key)

\* a read of the credential: ssh_service.py line 76, git_sync.py line 623
ReadKey(id) ==
    /\ id \in DOMAIN keys
    /\ reply' = [Reply("read_key", 200, "", FALSE, FALSE) EXCEPT !.value = SSHKey_private_key(keys[id])]
    /\ UNCHANGED <<catalog_vars, cron, next_cron_id, triggers, settings_limit, run_vars>>

\* the process is started again with another BASHTOWER_SECRET_KEY
SetSecretKey(k) ==
    /\ k # env_key
    /\ env_key' = k
    /\ UNCHANGED <<hosts, groups, templates, keys, cron_vars, run_vars>>

\* ------------------------------------------------------------------ SpecVault
InitVault ==
    /\ hosts = {"h1", "h2"}
    /\ InitGroups
    /\ templates = [i \in {1} |-> [name |-> "t1"]]
    /\ InitKeys
    /\ cron = <<>>
    /\ next_cron_id = 1
    /\ triggers = <<>>
    /\ settings_limit = 0
    /\ ssh_env = {"exit0"}
    /\ InitIdle

NextVault ==
    \/ \E name \in {"k", "a", ""}, value \in {"", "p1", "p2"} : CreateKey(name, value)
    \/ \E name \in {"k", "a"}, value \in {"", "p1", "p2"}, overwrite \in BOOLEAN :
          RestoreKey(name, value, overwrite)
    \/ \E id \in 1..2 : ReadKey(id)
    \/ \E k \in EnvKeys : SetSecretKey(k)

SpecVault == InitVault /\ [][NextVault]_vars

\* ------------------------------------------------------------------ SpecCatalog
Names == {"a", "b"}

\* two templates, the first of them used by the one scheduled job; one group; one
\* credential
InitCatalog ==
    /\ hosts = {"h1", "h2"}
    /\ groups = [g \in {"g1"} |-> [name |-> "a", hosts |-> {"h1"}]]
    /\ templates = [i \in {1, 2} |-> [name |-> IF i = 1 THEN "a" ELSE "b"]]
    /\ env_key = "k1"
    /\ keys = [i \in {1} |-> KeyRow("a", "p1", "k1")]
    /\ cron = (1 :> CronRow("a", "five", <<"h1">>, TRUE))
    /\ next_cron_id = 2
    /\ triggers = <<[id |-> 1, schedule |-> "five"]>>
    /\ settings_limit = 0
    /\ ssh_env = {"exit0"}
    /\ InitIdle

NextCatalog ==
    \/ \E name \in Names \cup {""}, script \in {"", "s"} : CreateTemplate(name, script)
    \/ \E id \in 1..MaxTemplateId, name \in Names \cup {""} : UpdateTemplate(id, name)
    \/ \E id \in 1..MaxTemplateId : DeleteTemplate(id)
    \/ \E name \in Names \cup {""}, host_ids \in {{}, {"h2", "h3"}} : CreateGroup(name, host_ids)
    \/ \E g \in {"g1", "g2"}, name \in Names : UpdateGroup(g, name, {"h1", "h3"})
    \/ \E name \in Names \cup {""}, private_key \in {"", "p1"} : CreateKey(name, private_key)
    \/ \E name \in Names \cup {""}, schedule \in {"five", "bad"} :
          CreateCron(name, schedule, <<"h1">>, TRUE)
    \/ \E id \in 1..MaxCronId, name \in Names : UpdateCron(id, name, "five", <<"h1">>, TRUE)

SpecCatalog == InitCatalog /\ [][NextCatalog]_vars

\* ------------------------------------------------------------------ SpecLive
\* The catalog changes while firings run: a scheduled job is saved from a group,
\* the members of the group change, the job is deleted.
InitLive ==
    /\ hosts = {"h1", "h2"}
    /\ InitGroups
    /\ templates = [i \in {1} |-> [name |-> "t1"]]
    /\ InitKeys
    /\ cron = <<>>
    /\ next_cron_id = 1
    /\ triggers = <<>>
    /\ settings_limit = 0
    /\ ssh_env = {"exit0"}
    /\ InitIdle

NextLive ==
    \/ CreateCron("a", "five", ResolveHostIds(<<>>, {"g1"}), TRUE)
    \/ \E hs \in {{"h1"}, {"h1", "h2"}} : UpdateGroup("g1", "g1", hs)
    \/ DeleteCron(1)
    \/ \E t \in 1..MaxLiveFirings, id \in 1..MaxCronId : Fire(t, id)
    \/ \E t \in Firings : RegistryEnter(t)
    \/ \E t \in Firings : RegistryCheck(t)
    \/ \E t \in Firings : RegistryCreate(t)
    \/ \E t \in Firings : RegistryRead(t)
    \/ \E t \in Firings : TryAcquire(t)
    \/ \E t \in Firings : Resolve(t)
    \/ \E t \in Firings : Dispatch(t)
    \/ \E t \in Firings : Join(t)
    \/ \E t \in Firings : UpdateLastRun(t)
    \/ \E t \in Firings : SweepCount(t)
    \/ \E t \in Firings : Release(t)
    \/ \E k \in DOMAIN workers : WorkerCreate(k)
    \/ \E k \in DOMAIN workers, o \in Outcomes : WorkerFinish(k, o)

SpecLive == InitLive /\ [][NextLive]_vars

\* ------------------------------------------------------------------ ad-hoc jobs
\* jobs.py lines 31-49: the explicit ids and the members of the groups, as a set
ResolveTarget(host_ids, group_ids) ==
    SeqToSet(host_ids) \cup UNION {groups[g].hosts : g \in group_ids \cap DOMAIN groups}

\* whether the request names a host both explicitly and through a group
Overlap(host_ids, group_ids) ==
    SeqToSet(host_ids) \cap UNION {groups[g].hosts : g \in group_ids \cap DOMAIN groups} # {}

\* jobs.py lines 26-55: the HTTP status of POST /api/run. An id of 0 stands for a
\* missing or empty field of the request; template.name of a Template that does
\* not exist raises, which the framework answers with 500.
RunResponseNoEmptyCheck(template_id, host_ids, group_ids, key_id) ==
    IF template_id = 0 \/ key_id = 0 THEN 400
    ELSE IF \E x \in SeqToSet(host_ids) : x \notin HostTokens THEN 400
    ELSE IF template_id \notin DOMAIN templates THEN 500
    ELSE 200

RunResponse(template_id, host_ids, group_ids, key_id) ==
    IF template_id = 0 \/ key_id = 0 THEN 400
    ELSE IF \E x \in SeqToSet(host_ids) : x \notin HostTokens THEN 400
    ELSE IF ResolveTarget(host_ids, group_ids) = {} THEN 400
    ELSE IF template_id \notin DOMAIN templates THEN 500
    ELSE 200

\* POST /api/run
RunTemplate(template_id, host_ids, group_ids, key_id) ==
    /\ Len(responses) < MaxRuns
    /\ LET code == RunResponse(template_id, host_ids, group_ids, key_id)
           empty == ResolveTarget(host_ids, group_ids) = {}
       IN IF code # 200
          THEN /\ responses' = Append(responses, [code |-> code, empty |-> empty, job |-> 0])
               /\ UNCHANGED <<jobs, next_job_id, runner>>
          ELSE /\ responses' = Append(responses,
                                      [code |-> code, empty |-> empty, job |-> next_job_id])
               /\ jobs' = Put(jobs, next_job_id,
                              [template_name |-> templates[template_id].name,
                               status |-> "running"])
               /\ next_job_id' = next_job_id + 1
               /\ runner' = Put(runner, next_job_id,
                                [pc |-> "start", template_id |-> template_id, key_id |-> key_id,
                                 host_ids |-> ResolveTarget(host_ids, group_ids),
                                 overlap |-> Overlap(host_ids, group_ids), hosts |-> {},
                                 looked |-> {}, found |-> {}])
    /\ UNCHANGED <<catalog_vars, cron_vars, lock_vars, cron_logs, next_cron_log,
                   job_logs, next_job_log, now, fire, workers, ssh_env, requests>>

\* ssh_service.py line 148: Host.query.filter(Host.id.in_(host_ids)).all()
HostsFoundUnfiltered(host_ids) == host_ids

HostsFound(host_ids) == host_ids \cap hosts

\* lines 153-158: the row written when the setup fails
SetupFailedLog(id, j) ==
    [id |-> id, owner |-> j, hostname |-> "N/A", status |-> "error",
     stdout |-> None, stderr |-> "Job setup failed: Template, key, or hosts not found.",
     created_at |-> id, worker |-> <<"runner", j, "N/A">>, writes |-> 1]

\* the credential is not looked at
SetupFailedKeyUnchecked(looked, found) == "template" \notin looked \/ found = {}

\* line 150: if not template or not ssh_key or not hosts
SetupFailed(looked, found) == "template" \notin looked \/ "key" \notin looked \/ found = {}

\* lines 144-173: the lookups, then either the setup failure or one thread per host.
\* looked and found record what the lookups of lines 145-148 returned.
RunnerStart(j) ==
    /\ j \in DOMAIN runner
    /\ runner[j].pc = "start"
    /\ LET found == HostsFound(runner[j].host_ids)
           looked == {x \in {"template"} : runner[j].template_id \in DOMAIN templates}
                       \cup {x \in {"key"} : runner[j].key_id \in DOMAIN keys}
       IN
       IF SetupFailed(looked, found)
       THEN /\ jobs' = [jobs EXCEPT ![j].status = "error"]
            /\ job_logs' = Put(job_logs, next_job_log, SetupFailedLog(next_job_log, j))
            /\ next_job_log' = next_job_log + 1
            /\ runner' = [runner EXCEPT ![j].pc = "done", ![j].looked = looked,
                                        ![j].found = found]
            /\ UNCHANGED workers
       ELSE /\ workers' = workers @@ Spawned({<<"job", j, h>> : h \in found})
            /\ runner' = [runner EXCEPT ![j].pc = "join", ![j].hosts = found,
                                        ![j].looked = looked, ![j].found = found]
            /\ UNCHANGED <<jobs, job_logs, next_job_log>>
    /\ UNCHANGED <<catalog_vars, cron_vars, lock_vars, cron_logs, next_cron_log,
                   next_job_id, responses, now, fire, ssh_env, requests>>

JobLogsOf(j) == {job_logs[r] : r \in {x \in DOMAIN job_logs : job_logs[x].owner = j}}

\* lines 181-185: the roll-up over job.logs
FinalStatusErrorOnly(logs) ==
    IF \E l \in logs : l.status = "error" THEN "failed" ELSE "completed"

FinalStatus(logs) ==
    IF \E l \in logs : l.status \in {"error", "connection_failed"} THEN "failed" ELSE "completed"

\* lines 175-188: every thread is joined, the job is refreshed and its status set
RunnerJoin(j) ==
    /\ j \in DOMAIN runner
    /\ runner[j].pc = "join"
    /\ Joined({<<"job", j, h>> : h \in runner[j].hosts})
    /\ jobs' = [jobs EXCEPT ![j].status = FinalStatus(JobLogsOf(j))]
    /\ runner' = [runner EXCEPT ![j].pc = "done"]
    /\ UNCHANGED <<catalog_vars, cron_vars, lock_vars, cron_logs, next_cron_log,
                   job_logs, next_job_log, next_job_id, responses, now, fire, workers,
                   ssh_env, requests>>

\* ------------------------------------------------------------------ SpecJob
\* the host_ids lists of the requests
RunHostLists == {<<>>, <<"h2", "h2">>, <<"h1", "h3">>, <<"h3">>, <<BadToken>>}

\* the host_group_ids lists of the requests; no group has id g3
RunGroupLists == {{}, {"g1"}, {"g1", "g2"}, {"g3"}}

\* what the remote hosts do in one behaviour
Environments ==
    {{"exit0", "exitN"}, {"exit0", "timeout"}, {"auth", "ssh"}, {"bad_key", "other"},
     {"decode_error"}}

InitJob ==
    /\ hosts = {"h1", "h2"}
    /\ InitGroups
    /\ templates = [i \in {1} |-> [name |-> "t1"]]
    /\ InitKeys
    /\ cron = <<>>
    /\ next_cron_id = 1
    /\ triggers = <<>>
    /\ settings_limit = 0
    /\ ssh_env \in Environments
    /\ InitIdle

NextJob ==
    \/ \E template_id \in 0..2, key_id \in 0..2, host_ids \in RunHostLists,
          group_ids \in RunGroupLists :
          RunTemplate(template_id, host_ids, group_ids, key_id)
    \/ \E j \in DOMAIN runner : RunnerStart(j)
    \/ \E j \in DOMAIN runner : RunnerJoin(j)
    \/ \E k \in DOMAIN workers : WorkerCreate(k)
    \/ \E k \in DOMAIN workers, o \in Outcomes : WorkerFinish(k, o)

SpecJob == InitJob /\ [][NextJob]_vars

\* ------------------------------------------------------------------ SpecHosts
\* DELETE /api/hosts/<id>: hosts.py lines 69-74. The rows of the association table
\* go with the Host row; nothing else is written.
DeleteHost(h) ==
    /\ h \in hosts
    /\ hosts' = hosts \ {h}
    /\ groups' = [g \in DOMAIN groups |-> [groups[g] EXCEPT !.hosts = @ \ {h}]]
    /\ reply' = Reply("delete_host", 204, "", FALSE, FALSE)
    /\ UNCHANGED <<templates, keys, env_key, cron, next_cron_id, triggers, settings_limit,
                   run_vars>>

\* One scheduled job on both hosts; the hosts are deleted while its trigger fires.
InitHosts ==
    /\ hosts = {"h1", "h2"}
    /\ InitGroups
    /\ templates = [i \in {1} |-> [name |-> "t1"]]
    /\ InitKeys
    /\ cron = (1 :> CronRow("a", "five", <<"h1", "h2">>, TRUE))
    /\ next_cron_id = 2
    /\ triggers = <<[id |-> 1, schedule |-> "five"]>>
    /\ settings_limit = 0
    /\ ssh_env = {"exit0"}
    /\ InitIdle

NextHosts ==
    \/ \E h \in HostTokens : DeleteHost(h)
    \/ \E t \in 1..MaxLiveFirings : Fire(t, 1)
    \/ \E t \in Firings : RegistryEnter(t)
    \/ \E t \in Firings : RegistryCheck(t)
    \/ \E t \in Firings : RegistryCreate(t)
    \/ \E t \in Firings : RegistryRead(t)
    \/ \E t \in Firings : TryAcquire(t)
    \/ \E t \in Firings : Resolve(t)
    \/ \E t \in Firings : Dispatch(t)
    \/ \E t \in Firings : Join(t)
    \/ \E t \in Firings : UpdateLastRun(t)
    \/ \E t \in Firings : SweepCount(t)
    \/ \E t \in Firings : Release(t)
    \/ \E k \in DOMAIN workers : WorkerCreate(k)
    \/ \E k \in DOMAIN workers, o \in Outcomes : WorkerFinish(k, o)

SpecHosts == InitHosts /\ [][NextHosts]_vars

\* ------------------------------------------------------------------ SpecJobLive
\* The remote command never exits: stdout.channel.recv_exit_status() (line 100)
\* waits for the exit status with no timeout of its own, so none of the Outcomes
\* happens.
Hang == "hang"

\* the threads an ad-hoc run can start
WorkerKeys == {<<"job", j, h>> : j \in 1..MaxRuns, h \in HostTokens}

\* ad-hoc runs against hosts that answer or time out, or whose command never exits
InitJobLive ==
    /\ hosts = {"h1", "h2"}
    /\ InitGroups
    /\ templates = [i \in {1} |-> [name |-> "t1"]]
    /\ InitKeys
    /\ cron = <<>>
    /\ next_cron_id = 1
    /\ triggers = <<>>
    /\ settings_limit = 0
    /\ ssh_env \in {{"exit0", "timeout"}, {Hang}}
    /\ InitIdle

\* Every thread that was started is scheduled: run_job_thread and each
\* execute_ssh_command take their next step when they can.
FairJob ==
    /\ \A j \in 1..MaxRuns : WF_vars(RunnerStart(j)) /\ WF_vars(RunnerJoin(j))
    /\ \A k \in WorkerKeys :
          WF_vars(WorkerCreate(k)) /\ WF_vars(\E o \in Outcomes : WorkerFinish(k, o))

SpecJobLive == InitJobLive /\ [][NextJob]_vars /\ FairJob

\* ------------------------------------------------------------------ SpecDispatch
\* DELETE /api/keys/<id>: keys.py lines 41-46. The backref cron_jobs of models
\* line 138 has no delete cascade, so the flush first sets key_id of every
\* scheduled job of the key to NULL; the column is NOT NULL (line 137), the
\* commit raises IntegrityError and the key stays.
DeleteKey(id) ==
    /\ id \in DOMAIN keys
    /\ IF \E c \in DOMAIN cron : cron[c].key_id = id
       THEN /\ keys' = keys
            /\ reply' = Reply("delete_key", 500, "integrity", FALSE, FALSE)
       ELSE /\ keys' = Drop(keys, {id})
            /\ reply' = Reply("delete_key", 204, "", FALSE, FALSE)
    /\ UNCHANGED <<hosts, groups, templates, env_key, cron, next_cron_id, triggers,
                   settings_limit, run_vars>>

\* the host_ids lists of the requests of SpecDispatch
DispatchHostLists == {<<"h1">>, <<"h1", "h2">>, <<"h3">>}

\* Ad-hoc runs while the template and the credential can be deleted between the
\* request and the start of run_job_thread.
InitDispatch ==
    /\ hosts = {"h1", "h2"}
    /\ InitGroups
    /\ templates = [i \in {1} |-> [name |-> "t1"]]
    /\ InitKeys
    /\ cron = <<>>
    /\ next_cron_id = 1
    /\ triggers = <<>>
    /\ settings_limit = 0
    /\ ssh_env = {"exit0", "timeout"}
    /\ InitIdle

NextDispatch ==
    \/ \E template_id \in 1..2, key_id \in 1..2, host_ids \in DispatchHostLists :
          RunTemplate(template_id, host_ids, {}, key_id)
    \/ DeleteTemplate(1)
    \/ DeleteKey(1)
    \/ \E j \in DOMAIN runner : RunnerStart(j)
    \/ \E j \in DOMAIN runner : RunnerJoin(j)
    \/ \E k \in DOMAIN workers : WorkerCreate(k)
    \/ \E k \in DOMAIN workers, o \in Outcomes : WorkerFinish(k, o)

SpecDispatch == InitDispatch /\ [][NextDispatch]_vars

\* ------------------------------------------------------------------ SpecRefs
\* The references of the scheduled jobs: creates that name a template and a
\* credential by id, and the deletes of templates, credentials and jobs. The
\* catalog is that of SpecCatalog: job 1 uses template 1 and credential 1.
InitRefs == InitCatalog

NextRefs ==
    \/ \E schedule \in {"five", "bad"}, template_id \in 1..MaxTemplateId, key_id \in 1..2 :
          CreateCronWith("b", schedule, <<"h1">>, TRUE, template_id, key_id)
    \/ \E id \in 1..MaxTemplateId : DeleteTemplate(id)
    \/ \E id \in 1..2 : DeleteKey(id)
    \/ \E id \in 1..MaxCronId : DeleteCron(id)

SpecRefs == InitRefs /\ [][NextRefs]_vars

\* ------------------------------------------------------------------ concurrent requests
\* The server handles every request in a thread of its own, each with its own
\* database session, so two handlers interleave between their database
\* statements and between a commit and the call of the scheduler that follows it.
\* A request is a frame: its operation, its position in the handler, its inputs
\* and what it has read so far.
Requests == 1..MaxRequests

Received(r) == r \in DOMAIN requests

Frame(op, pc, name, schedule) ==
    [op |-> op, pc |-> pc, name |-> name, id |-> 1, schedule |-> schedule, trigger |-> "",
     code |-> 0]

\* everything a request handler leaves alone
idle_vars == <<lock_vars, job_vars, cron_logs, next_cron_log, job_logs, next_job_log, now, fire,
               workers, ssh_env>>

\* POST /api/templates, lines 17-34: the body is read; the name and the script
\* are there
ReceiveCreateTemplate(r, name) ==
    /\ ~Received(r)
    /\ name # ""
    /\ requests' = Put(requests, r, Frame("create_template", "check", name, ""))
    /\ UNCHANGED <<catalog_vars, cron_vars, idle_vars>>

\* lines 36-38: Template.query.filter_by(name=name).first()
CheckTemplateName(r) ==
    /\ Received(r)
    /\ requests[r].op = "create_template"
    /\ requests[r].pc = "check"
    /\ requests' = IF TemplateNameTaken(requests[r].name)
                   THEN [requests EXCEPT ![r].pc = "done", ![r].code = 400]
                   ELSE [requests EXCEPT ![r].pc = "insert"]
    /\ UNCHANGED <<catalog_vars, cron_vars, idle_vars>>

\* lines 40-42: add and commit; the table has no unique constraint on the name
InsertTemplate(r) ==
    /\ Received(r)
    /\ requests[r].op = "create_template"
    /\ requests[r].pc = "insert"
    /\ templates' = Put(templates, NewId(DOMAIN templates), [name |-> requests[r].name])
    /\ requests' = [requests EXCEPT ![r].pc = "done", ![r].code = 201]
    /\ UNCHANGED <<hosts, groups, keys, env_key, cron_vars, idle_vars>>

\* PUT /api/cronjobs/<id>, lines 97-135, with the name unchanged and a schedule
\* that croniter accepts: the row is loaded, assigned and committed
CommitUpdateCron(r, id, schedule) ==
    /\ ~Received(r)
    /\ id \in DOMAIN cron
    /\ CroniterAccepts(schedule)
    /\ cron' = [cron EXCEPT ![id].schedule = schedule]
    /\ requests' = Put(requests, r,
                       [Frame("update_cron", "build", cron[id].name, schedule) EXCEPT !.id = id])
    /\ UNCHANGED <<catalog_vars, next_cron_id, triggers, settings_limit, reply, idle_vars>>

\* schedule_cron_job, line 148: the commit expired the row's attributes, so
\* cron_job.schedule is read again from the database, and the trigger is built
\* from what is read
BuildTrigger(r) ==
    /\ Received(r)
    /\ requests[r].op = "update_cron"
    /\ requests[r].pc = "build"
    /\ requests[r].id \in DOMAIN cron
    /\ requests' = [requests EXCEPT ![r].pc = "add_job",
                                    ![r].trigger = cron[requests[r].id].schedule]
    /\ UNCHANGED <<catalog_vars, cron_vars, idle_vars>>

\* schedule_cron_job, lines 149-158: add_job with the trigger built before
InstallTrigger(r) ==
    /\ Received(r)
    /\ requests[r].op = "update_cron"
    /\ requests[r].pc = "add_job"
    /\ triggers' = schedule_cron_job(triggers, requests[r].id, requests[r].trigger)
    /\ requests' = [requests EXCEPT ![r].pc = "done", ![r].code = 200]
    /\ UNCHANGED <<catalog_vars, cron, next_cron_id, settings_limit, reply, idle_vars>>

\* the catalog of SpecCatalog; no request has arrived
InitRace == InitCatalog

NextRace ==
    \/ \E r \in Requests, name \in {"b", "c"} : ReceiveCreateTemplate(r, name)
    \/ \E r \in Requests : CheckTemplateName(r)
    \/ \E r \in Requests : InsertTemplate(r)
    \/ \E r \in Requests, schedule \in {"five", "hourly"} : CommitUpdateCron(r, 1, schedule)
    \/ \E r \in Requests : BuildTrigger(r)
    \/ \E r \in Requests : InstallTrigger(r)

SpecRace == InitRace /\ [][NextRace]_vars

\* ------------------------------------------------------------------ claims
\* the part of execute_cron_job between cron_lock.acquire and cron_lock.release
Critical ==
    {"resolve", "dispatch", "join", "update", "sweep", "sweep_keep", "sweep_delete", "release"}

Holders(id) == {t \in Firings : fire[t].job = id /\ fire[t].pc \in Critical}

\* C1: for each scheduled job id, at most one execution of execute_cron_job is
\* between the acquisition and the release of the job's lock, whatever the
\* interleaving of the firings of that id.
C1_OneRunPerJob == \A t \in Firings : Cardinality(Holders(fire[t].job)) <= 1

\* two firings of one job: one holds the lock, the other was refused it
C1_Witness ==
    \E t, u \in Firings :
        /\ t # u
        /\ fire[t].job = fire[u].job
        /\ fire[t].pc \in Critical
        /\ fire[u].acquired = "no"
        /\ Len(lock_held) = 1

\* C2: whenever no execution of a scheduled job is in progress, the job's lock is
\* free (every firing that acquired it has released it on its way out).
C2_LockFreeWhenIdle ==
    \A id \in DOMAIN cron_locks :
        (~\E t \in Firings : fire[t].job = id /\ InProgress(t)) => ~lock_held[cron_locks[id]]

\* C3: a firing that finds the job's lock held has returned, has started no host
\* execution (so created no HostLog row), has not written last_run, has not run the
\* sweep, and stays returned: it is not run later.
C3_DroppedFiringDoesNothing ==
    /\ [](\A t \in Firings :
            fire[t].acquired = "no" =>
                /\ fire[t].pc = "skipped"
                /\ fire[t].effects = {}
                /\ ~\E k \in DOMAIN workers : k[1] = "cron" /\ k[2] = t)
    /\ [][\A t \in Firings : fire[t].pc = "skipped" => fire'[t] = fire[t]]_vars

\* a firing was dropped while the run that holds the lock has a row in progress
C3_Witness ==
    \E t, u \in Firings :
        /\ fire[t].pc = "skipped"
        /\ fire[u].job = fire[t].job
        /\ fire[u].pc = "join"
        /\ \E r \in DOMAIN cron_logs : cron_logs[r].worker[2] = u

\* C4: every persisted ScheduledJob with enabled=true has exactly one trigger
\* keyed by its id.
C4_EnabledHasOneTrigger == \A id \in DOMAIN cron : cron[id].enabled => TriggerCount(id) = 1

\* C5: a ScheduledJob saved with enabled=false has no trigger keyed by its id.
C5_DisabledHasNoTrigger == \A id \in DOMAIN cron : ~cron[id].enabled => TriggerCount(id) = 0

\* C6: a deleted ScheduledJob has no trigger keyed by its id.
C6_DeletedHasNoTrigger ==
    \A id \in 1..(next_cron_id - 1) : id \notin DOMAIN cron => TriggerCount(id) = 0

AllLogs == {job_logs[r] : r \in DOMAIN job_logs} \cup {cron_logs[r] : r \in DOMAIN cron_logs}

\* the execute_ssh_command invocation w has created its row and not yet returned
InFlight(w) == w \in DOMAIN workers /\ workers[w].pc = "running"

\* C7: a HostLog row has status running only while the invocation that created it
\* is executing; once the invocation has returned the status is success, error or
\* connection_failed.
C7_RunningOnlyInFlight ==
    \A l \in AllLogs :
        /\ l.status = "running" => InFlight(l.worker)
        /\ ~InFlight(l.worker) => l.status \in Terminal

\* one row still running, and one finalised by the handler of unexpected errors
C7_Witness ==
    \E l, m \in AllLogs :
        /\ l.status = "running" /\ InFlight(l.worker)
        /\ m.status = "connection_failed" /\ m.stderr = "Error: e"
        /\ workers[m.worker].pc = "returned"

\* C8 as stated: each HostLog row is created with status running and is written
\* exactly once more, to a terminal status.
C8_EveryRowRunningThenOnce ==
    \A l \in AllLogs :
        \/ l.status = "running" /\ l.writes = 1
        \/ l.status \in Terminal /\ l.writes = 2

Unchanging(logs, logs2) ==
    \A r \in DOMAIN logs \cap DOMAIN logs2 : logs[r].status \in Terminal => logs2[r] = logs[r]

\* C8 amended: each HostLog row created by an SSH execution is created with status
\* running and is written exactly once more, to a terminal status; the row of a
\* failed job setup is written once, with status error; a terminal row's status,
\* stdout and stderr never change again.
C8_WrittenOnceAfterCreation ==
    /\ [](\A l \in AllLogs :
            IF l.worker[1] = "runner"
            THEN l.status = "error" /\ l.writes = 1
            ELSE \/ l.status = "running" /\ l.writes = 1
                 \/ l.status \in Terminal /\ l.writes = 2)
    /\ [][Unchanging(job_logs, job_logs') /\ Unchanging(cron_logs, cron_logs')]_vars

\* a row of an SSH execution that has returned: terminal, written twice
C8_Witness ==
    \E l \in AllLogs :
        /\ l.worker[1] = "job"
        /\ workers[l.worker].pc = "returned"
        /\ l.status = "error" /\ l.writes = 2

JobLogIds(j) == {r \in DOMAIN job_logs : job_logs[r].owner = j}

\* C9 as stated: a finished ad-hoc run with resolved target H has exactly |H| rows.
C9_OneRowPerTargetId ==
    \A j \in DOMAIN runner :
        runner[j].pc = "done" => Cardinality(JobLogIds(j)) = Cardinality(runner[j].host_ids)

\* C9 amended: a finished ad-hoc run whose template and credential exist and whose
\* resolved target H holds an existing host has exactly one row per existing host
\* of H, also when a host is named explicitly and through groups; any other run
\* has the single row of the failed setup.
C9_OneRowPerExistingHost ==
    \A j \in DOMAIN runner :
        runner[j].pc = "done" =>
            IF /\ runner[j].template_id \in DOMAIN templates
               /\ runner[j].key_id \in DOMAIN keys
               /\ runner[j].host_ids \cap hosts # {}
            THEN /\ Cardinality(JobLogIds(j)) = Cardinality(runner[j].host_ids \cap hosts)
                 /\ {job_logs[r].hostname : r \in JobLogIds(j)} = runner[j].host_ids \cap hosts
            ELSE /\ Cardinality(JobLogIds(j)) = 1
                 /\ \A r \in JobLogIds(j) : job_logs[r].hostname = "N/A"

\* a finished run over two existing hosts, one of them named twice over
C9_Witness ==
    \E j \in DOMAIN runner :
        /\ runner[j].pc = "done"
        /\ runner[j].overlap
        /\ runner[j].host_ids = {"h1", "h2"}
        /\ Cardinality(JobLogIds(j)) = 2

\* C10: when the workers of an ad-hoc job have all finished, the job is completed
\* iff every HostLog of the job is success, and failed if any HostLog ended in
\* error or connection_failed. (A job whose setup failed started no worker: it is
\* not completed either, and its status is error.)
C10_FinalStatus ==
    \A j \in DOMAIN runner :
        runner[j].pc = "done" =>
            /\ jobs[j].status = "completed" <=> \A l \in JobLogsOf(j) : l.status = "success"
            /\ runner[j].hosts # {} =>
                   ((\E l \in JobLogsOf(j) : l.status \in {"error", "connection_failed"})
                        => jobs[j].status = "failed")

\* a failed job with one host that succeeded and one that could not be reached
C10_Witness ==
    \E j \in DOMAIN runner :
        /\ runner[j].pc = "done"
        /\ jobs[j].status = "failed"
        /\ \E l, m \in JobLogsOf(j) : l.status = "success" /\ m.status = "connection_failed"

Returned(l) == l.worker \in DOMAIN workers /\ workers[l.worker].pc = "returned"

\* C11: whenever the remote command ran and returned an exit status, the HostLog
\* status is success for exit 0 and error for a non-zero exit, never
\* connection_failed, whatever bytes stdout and stderr hold.
C11_ExitStatusDecidesStatus ==
    \A l \in AllLogs :
        Returned(l) =>
            /\ workers[l.worker].exit_status = "zero" => l.status = "success"
            /\ workers[l.worker].exit_status = "nonzero" => l.status = "error"

\* the text f"{prefix}: {e}" of an except clause
Rendered(prefix) == prefix \o ": e"

\* C12: every failure to obtain a remote exit status ends the HostLog as
\* connection_failed with a non-empty classifying stderr: an unparsable private
\* key (raised before the connection is attempted), an authentication rejection
\* ("Authentication Error"), a transport error ("SSH Error"), a timeout
\* ("Connection Timeout"), any other exception (its text, after "Error").
C12_FailuresClassified ==
    \A l \in AllLogs :
        (Returned(l) /\ workers[l.worker].exit_status = "unset") =>
            LET o == workers[l.worker].outcome IN
            /\ l.status = "connection_failed"
            /\ l.stderr # ""
            /\ o = "bad_key" => RaisedAt(o) < ConnectStep
            /\ o = "auth" => l.stderr = Rendered("Authentication Error")
            /\ o = "ssh" => l.stderr = Rendered("SSH Error")
            /\ o = "timeout" => l.stderr = Rendered("Connection Timeout")
            /\ o = "other" => l.stderr = Rendered("Error")

\* two executions that got no exit status: one was rejected, one lost the transport
C12_Witness ==
    \E l, m \in AllLogs :
        /\ Returned(l) /\ workers[l.worker].outcome = "auth"
        /\ Returned(m) /\ workers[m.worker].outcome = "ssh"
        /\ l.status = "connection_failed" /\ m.status = "connection_failed"

\* C13: a run request whose resolved host set is empty is answered with a
\* validation error and creates no AdHocJob row and no HostLog row (every Job row
\* comes from a request with a non-empty target, every HostLog row belongs to a Job
\* row); no job with zero HostLogs has status completed.
C13_EmptyTargetRejected ==
    /\ \A i \in 1..Len(responses) :
           responses[i].empty => responses[i].code = 400 /\ responses[i].job = 0
    /\ \A j \in DOMAIN jobs : runner[j].host_ids # {}
    /\ \A r \in DOMAIN job_logs : job_logs[r].owner \in DOMAIN jobs
    /\ \A j \in DOMAIN jobs : JobLogIds(j) = {} => jobs[j].status # "completed"

\* a request with no host and no member of any group was answered
C13_Witness ==
    \E i \in 1..Len(responses) :
        /\ responses[i].empty
        /\ responses[i].code = 400
        /\ Cardinality(DOMAIN jobs) = Len(responses) - 1
        /\ job_logs = <<>>

C17_PersistedScheduleValid ==
    \A id \in DOMAIN cron : cron[id].schedule = "five"

Unique(names) == \A x, y \in DOMAIN names : names[x].name = names[y].name => x = y

\* C18 as stated: a create or rename with a name that another row of the kind
\* uses is answered with the duplicate-name error.
C18_DuplicateNameError ==
    reply.dup => reply.code = 400 /\ reply.error = "duplicate"

\* C18 amended: a create or rename of a Template, Group, Credential or
\* ScheduledJob with a name that another row of the kind uses is answered with an
\* error - the duplicate-name error, unless a required field of the request is
\* empty, which is reported first - and leaves the catalog unchanged; no two rows
\* of a kind share a name.
C18_DuplicateNameRefused ==
    /\ [](reply.dup =>
            /\ reply.code = 400
            /\ reply.error = IF reply.missing THEN "required" ELSE "duplicate")
    /\ [](Unique(templates) /\ Unique(groups) /\ Unique(keys) /\ Unique(cron))
    /\ [][reply'.dup => UNCHANGED <<templates, groups, keys, cron, triggers>>]_vars

\* a template could not be renamed to the name of another one
C18_Witness ==
    /\ reply.op = "update_template"
    /\ reply.dup
    /\ reply.error = "duplicate"
    /\ Cardinality(DOMAIN templates) = 3

\* Fernet decrypts the stored string under the key
Decryptable(stored, key) == stored.kind = "token" /\ key \in FernetKeys /\ stored.key = key

\* C19: for every plaintext p written to a secret column, reading the column
\* returns p (decrypt(encrypt(p)) = p, under the key it was written with); for a
\* stored value that cannot be decrypted, the read returns the stored value
\* unchanged, and no read modifies the stored value.
C19_RoundTripOrRaw ==
    /\ [](\A i \in DOMAIN keys :
            /\ env_key = keys[i].written_under => SSHKey_private_key(keys[i]) = Plain(keys[i].written)
            /\ ~Decryptable(keys[i].private_key, env_key) =>
                   SSHKey_private_key(keys[i]) = keys[i].private_key)
    /\ [][\A i \in DOMAIN keys :
            ReadKey(i) =>
                /\ keys' = keys
                /\ reply'.value = IF Decryptable(keys[i].private_key, env_key)
                                  THEN Plain(keys[i].written)
                                  ELSE keys[i].private_key]_vars

\* a credential written under one key was read under another: the token came back
C19_Witness ==
    /\ reply.op = "read_key"
    /\ reply.value.kind = "token"
    /\ \E i \in DOMAIN keys :
          /\ keys[i].private_key = reply.value
          /\ keys[i].written_under # env_key
          /\ keys[i].written = "p2"

\* C20: a write to a secret column whose encryption fails does not persist; in no
\* reachable state does a secret column written through the vault hold the
\* plaintext value.
C20_NeverPlaintext ==
    \A i \in DOMAIN keys : keys[i].private_key.kind = "token"

\* C15: when the retention sweep runs with cron_history_limit = L > 0 and more
\* than L cron HostLog rows exist, exactly L rows remain afterwards and they are
\* the L newest by created_at: every row its delete removed is older than every
\* row it left.
C15_SweepLeavesNewest ==
    \A t \in Firings :
        "delete" \in fire[t].effects =>
            /\ Cardinality(fire[t].kept) = settings_limit
            /\ \A d \in fire[t].deleted, k \in fire[t].kept : d < k

\* C16: the retention sweep deletes nothing when cron_history_limit is 0 (or no
\* Settings row exists) or when the number of cron HostLog rows is at or below the
\* limit: it returns after the count; a sweep leaves no more rows than the limit,
\* so that a sweep run right after it deletes nothing either.
C16_SweepNoOp ==
    /\ [][\A t \in Firings :
            (SweepCount(t) /\ (settings_limit = 0 \/ Cardinality(DOMAIN cron_logs) <= settings_limit))
                => fire'[t].pc = "release" /\ cron_logs' = cron_logs]_vars
    /\ [][\A t \in Firings :
            SweepDelete(t) => Cardinality(DOMAIN cron_logs') <= settings_limit]_vars
    /\ [](cleanup_old_cron_history(cleanup_old_cron_history(cron_logs, settings_limit),
                                   settings_limit)
            = cleanup_old_cron_history(cron_logs, settings_limit))

\* one run swept and deleted, the run after it swept and had nothing to delete
C16_Witness ==
    \E t, u \in Firings :
        /\ fire[t].effects = {"last_run", "sweep", "delete"}
        /\ fire[u].effects = {"last_run", "sweep"}
        /\ fire[t].fired_at < fire[u].fired_at
        /\ settings_limit = MaxHistory
        /\ cron_logs # <<>>

\* the firings that resolved their hosts
Resolved == {"dispatch", "join", "update", "sweep", "sweep_keep", "sweep_delete", "release", "done"}

\* C21: the target host ids of a scheduled job are fixed when it is saved: a job
\* saved from a group holds the members the group had then, a change of a group's
\* members changes no saved job and no firing, and every firing runs on the saved
\* ids (those of them that are Host rows).
C21_TargetsFrozenAtSave ==
    /\ [][(CreateCron("a", "five", ResolveHostIds(<<>>, {"g1"}), TRUE) /\ reply'.code = 201)
            => SeqToSet(cron'[next_cron_id].host_ids) = groups["g1"].hosts \cap hosts]_vars
    /\ [][groups' # groups =>
            /\ cron' = cron
            /\ \A t \in Firings : fire'[t].host_ids = fire[t].host_ids
                                  /\ fire'[t].hosts = fire[t].hosts]_vars
    /\ [](\A t \in Firings :
            /\ (fire[t].pc \in Resolved => fire[t].hosts = SeqToSet(fire[t].host_ids) \cap hosts)
            /\ (InProgress(t) /\ fire[t].job \in DOMAIN cron
                  => fire[t].host_ids = cron[fire[t].job].host_ids))

\* a firing runs on both hosts of the job saved from g1, which has lost h2 since
C21_Witness ==
    \E t \in Firings :
        /\ fire[t].pc = "join"
        /\ fire[t].job \in DOMAIN cron
        /\ cron[fire[t].job].host_ids = <<"h1", "h2">>
        /\ fire[t].hosts = {"h1", "h2"}
        /\ groups["g1"].hosts = {"h1"}
        /\ groups["g2"].hosts = {"h2"}

\* the rows of the ad-hoc job j for the host h
RowsFor(j, h) == {r \in DOMAIN job_logs : job_logs[r].owner = j /\ job_logs[r].hostname = h}

Ran(id) == {t \in Firings : fire[t].job = id /\ "last_run" \in fire[t].effects}

\* C23: after a firing that acquired the lock and ran, the job's last_run is the
\* instant at which that firing (the last of the job's firings that ran) was
\* triggered, however long the host executions took.
C23_LastRunIsFiringInstant ==
    \A id \in DOMAIN cron :
        Ran(id) # {} => \E t \in Ran(id) : cron[id].last_run = fire[t].fired_at

\* C24: a firing of a scheduled job is never dropped or blocked because a run of
\* another job is in progress: a firing is dropped only when a firing of its own
\* job took the lock, distinct jobs have distinct locks, and the one lock all
\* firings share (the registry's) is held only for the lookup, never during a run.
C24_DistinctJobsIndependent ==
    /\ \A t \in Firings :
          fire[t].acquired = "no"
              => \E u \in Firings \ {t} : fire[u].job = fire[t].job /\ fire[u].acquired = "yes"
    /\ \A t, u \in Firings :
          (fire[t].lock # 0 /\ fire[u].lock # 0 /\ fire[t].job # fire[u].job)
              => fire[t].lock # fire[u].lock
    /\ registry_owner # 0 => fire[registry_owner].pc \in {"reg_check", "reg_create", "reg_read"}

\* the runs of two jobs wait for their host executions at the same time
C24_Witness ==
    \E t, u \in Firings :
        /\ fire[t].job # fire[u].job
        /\ fire[t].pc = "join"
        /\ fire[u].pc = "join"
        /\ \E h \in fire[t].hosts : workers[<<"cron", t, h>>].pc = "running"
        /\ \E h \in fire[u].hosts : workers[<<"cron", u, h>>].pc = "running"

\* C25: right after the startup load every ScheduledJob with enabled=true has a
\* trigger, no job with enabled=false has one, and no id has more than one.
C25_StartupLoadsEnabled ==
    reply.op = "startup"
        => \A id \in DOMAIN cron :
              /\ cron[id].enabled => TriggerCount(id) = 1
              /\ ~cron[id].enabled => TriggerCount(id) = 0

\* C26: an ad-hoc job whose template, credential or hosts were not found when
\* run_job_thread looked them up has status error and exactly one HostLog row,
\* with hostname "N/A" and status error, and no SSH execution of it was started;
\* a request naming a template that does not exist creates no AdHocJob row, and a
\* job whose runner has returned is never left in status running.
C26_SetupFailureEndsInError ==
    /\ [](\A j \in DOMAIN runner :
            /\ (/\ runner[j].pc # "start"
                /\ \/ "template" \notin runner[j].looked
                   \/ "key" \notin runner[j].looked
                   \/ runner[j].found = {})
                  => /\ runner[j].pc = "done"
                     /\ jobs[j].status = "error"
                     /\ Cardinality(JobLogIds(j)) = 1
                     /\ \A r \in JobLogIds(j) : /\ job_logs[r].hostname = "N/A"
                                                /\ job_logs[r].status = "error"
                     /\ ~\E k \in DOMAIN workers : k[1] = "job" /\ k[2] = j
            /\ runner[j].pc = "done" => jobs[j].status # "running")
    /\ [][\A template_id \in 1..2, key_id \in 1..2, host_ids \in DispatchHostLists :
            (RunTemplate(template_id, host_ids, {}, key_id) /\ template_id \notin DOMAIN templates)
                => jobs' = jobs /\ job_logs' = job_logs /\ runner' = runner]_vars

\* a job whose template was deleted between the request and the lookups of
\* run_job_thread ended in error
C26_Witness ==
    \E j \in DOMAIN runner :
        /\ runner[j].pc = "done"
        /\ runner[j].looked = {"key"}
        /\ runner[j].found = {"h1"}
        /\ jobs[j].status = "error"
        /\ reply.op = "delete_template"

C28_NoRowOfDeletedOwner ==
    \A r \in DOMAIN cron_logs : cron_logs[r].owner \in DOMAIN cron

\* C29: every started host execution eventually finalises its HostLog to a
\* terminal status, so every ad-hoc job eventually leaves the status running.
C29_EveryRunEnds ==
    /\ \A k \in WorkerKeys :
          (k \in DOMAIN workers /\ workers[k].pc = "running")
              ~> (/\ k \in DOMAIN workers
                  /\ workers[k].pc = "returned"
                  /\ workers[k].row \in DOMAIN job_logs
                  /\ job_logs[workers[k].row].status \in Terminal)
    /\ \A j \in 1..MaxRuns :
          (j \in DOMAIN jobs /\ jobs[j].status = "running")
              ~> (j \in DOMAIN jobs /\ jobs[j].status # "running")

\* C30: the retention sweep never deletes or changes an ad-hoc HostLog row or an
\* AdHocJob row: no step of the sweep changes the two tables, and the rows of the
\* ad-hoc job, more than the limit, are all there in every state.
C30_SweepLeavesAdHocRows ==
    /\ [][\A t \in Firings :
            (SweepCount(t) \/ SweepKeep(t) \/ SweepDelete(t))
                => job_logs' = job_logs /\ jobs' = jobs]_vars
    /\ [](/\ job_logs = AdHocRows(MaxHistory + 1)
          /\ DOMAIN jobs = {1}
          /\ jobs[1].status = "completed")

\* a sweep deleted rows of the cron history while the ad-hoc job had more rows
\* than the limit
C30_Witness ==
    \E t \in Firings :
        /\ fire[t].deleted # {}
        /\ "delete" \in fire[t].effects
        /\ settings_limit = MaxHistory
        /\ Cardinality(DOMAIN job_logs) > settings_limit

\* C31: deleting a host leaves every ScheduledJob row unchanged; a firing of a job
\* whose list holds a deleted id runs on the hosts that remain, has no HostLog for
\* the deleted id, and once it has returned it has written last_run and its lock
\* is free, also when none of the listed hosts is left.
C31_DeletedHostIsNoOpTarget ==
    /\ cron[1].host_ids = <<"h1", "h2">>
    /\ \A t \in Firings :
          /\ fire[t].hosts \subseteq SeqToSet(fire[t].host_ids)
          /\ \A k \in DOMAIN workers : (k[1] = "cron" /\ k[2] = t) => k[3] \in fire[t].hosts
          /\ (fire[t].acquired = "yes" /\ fire[t].pc \in Ended)
                => /\ "last_run" \in fire[t].effects
                   /\ ~lock_held[fire[t].lock]

\* every host execution the firing t dispatched has returned, and its row, if it
\* is still there, is terminal
AllReturned(t) ==
    \A h \in fire[t].hosts :
        /\ <<"cron", t, h>> \in DOMAIN workers
        /\ workers[<<"cron", t, h>>].pc = "returned"
        /\ workers[<<"cron", t, h>>].row \in DOMAIN cron_logs
              => cron_logs[workers[<<"cron", t, h>>].row].status \in Terminal

\* C32 as stated: within one firing last_run is written and the sweep runs only
\* after every host execution of the firing is terminal, the sweep runs after
\* the write of last_run, and the lock is released only after the sweep.
C32_ReleasedOnlyAfterSweep ==
    \A t \in Firings :
        /\ "last_run" \in fire[t].effects => AllReturned(t)
        /\ "sweep" \in fire[t].effects => "last_run" \in fire[t].effects
        /\ (fire[t].pc = "done" /\ fire[t].acquired = "yes") => "sweep" \in fire[t].effects

\* C32 amended: as stated, except that a firing whose job was deleted during the
\* run fails to write last_run and releases the lock without running the sweep;
\* in every case the lock is held from the dispatch until the release, and it is
\* released only after every host execution of the firing is terminal.
C32_OrderWithinFiring ==
    \A t \in Firings :
        /\ "last_run" \in fire[t].effects => AllReturned(t)
        /\ "sweep" \in fire[t].effects => "last_run" \in fire[t].effects
        /\ fire[t].pc \in {"update", "sweep", "sweep_keep", "sweep_delete", "release", "done"}
              => AllReturned(t)
        /\ fire[t].pc \in {"dispatch", "join", "update", "sweep", "sweep_keep", "sweep_delete",
                           "release"}
              => lock_held[fire[t].lock]
        /\ (fire[t].pc \in {"release", "done"} /\ fire[t].acquired = "yes")
              => \/ {"last_run", "sweep"} \subseteq fire[t].effects
                 \/ fire[t].job \notin DOMAIN cron /\ fire[t].effects = {}

\* a firing on two hosts is about to release the lock: both executions returned,
\* last_run was written and the sweep ran
C32_Witness ==
    \E t \in Firings :
        /\ fire[t].pc = "release"
        /\ fire[t].hosts = {"h1", "h2"}
        /\ AllReturned(t)
        /\ fire[t].effects = {"last_run", "sweep"}
        /\ cron[fire[t].job].last_run = now

\* C33: the retention sweep is atomic with respect to concurrent writers: with
\* rows inserted by the workers of another job, or deleted by a second sweep,
\* while it is in progress, a sweep deletes no row that is newer than a row it
\* leaves, and it leaves at least min(limit, rows present) rows.
C33_SweepAtomic ==
    \A t \in Firings :
        "delete" \in fire[t].effects =>
            LET present == Cardinality(fire[t].deleted) + Cardinality(fire[t].kept)
            IN /\ ~\E d \in fire[t].deleted, k \in fire[t].kept : d > k
               /\ Cardinality(fire[t].kept) >= (IF present < settings_limit THEN present
                                                ELSE settings_limit)

\* the statuses a job ends in
TerminalJob == {"completed", "failed", "error"}

\* C36: a job that is completed or failed has no row that is still running, and
\* a job whose status is completed, failed or error keeps that status for ever.
C36_TerminalJobStays ==
    /\ [](\A j \in DOMAIN jobs :
             jobs[j].status \in {"completed", "failed"} =>
                 \A r \in DOMAIN job_logs :
                     job_logs[r].owner = j => job_logs[r].status # "running")
    /\ [][\A j \in DOMAIN jobs :
             jobs[j].status \in TerminalJob =>
                 j \in DOMAIN jobs' /\ jobs'[j].status = jobs[j].status]_vars

\* a job on two hosts has ended as failed, with both of its rows written, in a
\* catalog whose template 1 has been deleted
C36_Witness ==
    \E j \in DOMAIN jobs :
        /\ jobs[j].status = "failed"
        /\ 1 \notin DOMAIN templates
        /\ Cardinality({r \in DOMAIN job_logs : job_logs[r].owner = j}) = 2
        /\ \E r \in DOMAIN job_logs : job_logs[r].owner = j /\ job_logs[r].status = "success"

\* C37: a firing for a job id that has no row, or whose row is disabled when it
\* fires, ends at once and does nothing: it takes no lock, starts no thread and
\* creates no row, writes no last_run and runs no sweep, then or later.
C37_SkippedFiringDoesNothing ==
    /\ [][\A t \in Firings, id \in 1..5 :
             (Fire(t, id) /\ (id \notin DOMAIN cron \/ ~cron[id].enabled)) =>
                 /\ fire'[t].pc = "not_found_or_disabled"
                 /\ <<cron, cron_logs, job_logs, cron_locks, lock_held, workers>>' =
                        <<cron, cron_logs, job_logs, cron_locks, lock_held, workers>>]_vars
    /\ [][\A t \in Firings :
             fire[t].pc = "not_found_or_disabled" => fire'[t] = fire[t]]_vars
    /\ [](\A t \in Firings :
             fire[t].pc = "not_found_or_disabled" =>
                 /\ fire[t].lock = 0 /\ fire[t].acquired = "unset"
                 /\ fire[t].effects = {} /\ fire[t].deleted = {} /\ fire[t].kept = {}
                 /\ \A k \in DOMAIN workers : ~(k[1] = "cron" /\ k[2] = t))

\* the disabled job 4 and the deleted job 5 have both fired
C37_Witness ==
    \E t, u \in Firings :
        /\ fire[t].pc = "not_found_or_disabled" /\ fire[t].job = 4
        /\ fire[u].pc = "not_found_or_disabled" /\ fire[u].job = 5

\* C34: under any interleaving of concurrent creates and updates, no two
\* templates, no two credentials, no two groups and no two scheduled jobs share
\* a name.
C34_NamesUnique ==
    /\ \A i, j \in DOMAIN templates : templates[i].name = templates[j].name => i = j
    /\ \A i, j \in DOMAIN keys : keys[i].name = keys[j].name => i = j
    /\ \A g, h \in DOMAIN groups : groups[g].name = groups[h].name => g = h
    /\ \A i, j \in DOMAIN cron : cron[i].name = cron[j].name => i = j

\* C35: a scheduled job id never has two triggers, and once every concurrent
\* update of a scheduled job has been answered, the trigger of its id uses the
\* schedule that is persisted in the catalog.
C35_TriggerFollowsCatalog ==
    /\ \A id \in DOMAIN cron : TriggerCount(id) <= 1
    /\ (\A r \in DOMAIN requests : requests[r].pc = "done") =>
          \A i \in 1..Len(triggers) :
              triggers[i].id \in DOMAIN cron =>
                  triggers[i].schedule = cron[triggers[i].id].schedule

\* C38: every scheduled job's template_id names an existing template and its
\* key_id an existing credential.
C38_ReferencesExist ==
    \A id \in DOMAIN cron :
        cron[id].template_id \in DOMAIN templates /\ cron[id].key_id \in DOMAIN keys

====
